---- MODULE Spec2Model ----
(***************************************************************************)
(* The Miner of the core (src/unnamed/part_001) as a state machine.        *)
(*                                                                         *)
(* Every `await` of the Miner is a yield: the code between two awaits is   *)
(* one action.  A running _startWork/_mine call chain is a coroutine that  *)
(* lives in a slot c \in Slots; pc[c] names the await it is suspended at   *)
(* and loc[c] holds its local variables (the candidate under assembly).    *)
(*                                                                         *)
(* Blockchain, Accounts and Mempool are collaborators whose code is not    *)
(* part of the sources; they are modelled from their contract.  The main   *)
(* chain is a sequence, the hash of a block is its position in it, and     *)
(* the hash of an accounts state is the state itself (hashes are           *)
(* collision free).  Date.now() is a clock with a granularity of one       *)
(* second.                                                                 *)
(***************************************************************************)
EXTENDS Naturals, Integers, Sequences, FiniteSets

\* ---------------------------------------------------------------- bounds
MaxSlots == 2        \* coroutines alive at the same time
MaxTx == 1           \* transactions that exist
MaxChainLen == 2     \* blocks on the main chain, genesis included
MaxQueue == 1        \* pushBlock calls not yet processed by the blockchain
MaxNonce == 1        \* largest nonce a failed attempt may start from
MaxHashCount == 2    \* largest _hashCount between two hashrate ticks
MaxTime == 12        \* largest reading of the clock

MaxAddr == 2         \* addresses that hold accounts
MaxBalance == 2      \* largest balance, value and fee drawn
MaxAccountNonce == 1 \* largest account or transaction nonce drawn
MaxBodyTx == 2       \* transactions in the body of the tested block
MaxInterlink == 1    \* hashes in the interlink of the tested block
MaxBlockTx == 1      \* transactions in the body of the tested block
MaxScriptEvents == 2 \* load events of the appended script (onload, onreadystatechange)
MaxWaits == 1        \* times the window detector reports that it has to wait
MaxLoadCalls == 2    \* calls of Nimiq.load() by the page

MOVING_AVERAGE_MAX_SIZE == 10

Slots == 1..MaxSlots
Tx == 1..MaxTx

VARIABLES
    chain,            \* Blockchain: the main chain, chain[i] has hash i and height i
    accounts,         \* Blockchain.accounts: the committed accounts state
    txOwner,          \* Accounts: the slot holding the open transaction, 0 if none
    overlay,          \* Accounts: the state inside the open transaction
    pushQueue,        \* Blockchain: blocks given to pushBlock, not yet processed
    pendingSweeps,    \* Mempool: head changes whose eviction sweep is not finished
    mempool,          \* Mempool: the pending transactions
    now,              \* Date.now() / 1000
    _hashCount,
    _lastHashrate,
    _hashrateWorker,  \* TRUE iff it holds the handle of an interval timer
    intervals,        \* setInterval: the interval timers installed
    _hashrate,
    _lastHashCounts,
    _totalHashCount,
    _lastElapsed,
    _totalElapsed,
    _mempoolChanged,
    pc,               \* pc[c]: the await the coroutine in slot c is suspended at
    loc,              \* loc[c]: the locals of the coroutine in slot c
    fired,            \* what the last step fired ('transactions-ready' and the
                      \* Miner's own events) and which calls it made on the
                      \* blockchain, in order
    accountsTree,     \* Accounts test: the accounts tree, a set of terminals
    testBlock,        \* Accounts test: the body of the block applied and reverted
    accountsHash1,    \* Accounts test: the hash taken before the apply
    accountsHash2,    \* Accounts test: the hash taken after the revert
    testPc,           \* Accounts test: how far the test has run
    newArgs,          \* Block test: the arguments given to new Block(...)
    block1,           \* Block test: the block constructed
    thrown,           \* Block test: what the constructor threw, "" if nothing
    serialized,       \* Block test: the SerialBuffer returned by serialize()
    block2,           \* Block test: the block read back by Block.unserialize
    blockPc,          \* Block test: how far the test has run
    browser,          \* Nimiq: what the browser supports
    _loaded,          \* Nimiq._loaded, set by the library once it is evaluated
    _loadPromise,     \* Nimiq._loadPromise
    promisesCreated,  \* Nimiq: how often load() has run new Promise(...)
    _onload,          \* Nimiq._onload: TRUE iff the callback is assigned
    _core,            \* Nimiq._core
    scripts,          \* Nimiq: the scripts appended to the document's head
    scriptEvents,     \* Nimiq: load events the appended script has fired so far
    timeouts,         \* Nimiq: pending window.setTimeout(resolve, 1000) calls
    execPc,           \* Nimiq: where the executor of _loadPromise is suspended
    loadCaller,       \* Nimiq: a caller of load() and what its handlers received
    initCall,         \* Nimiq: a call of init(ready, error) and its callbacks
    getResult         \* Nimiq: the outcome of the last get()

minerVars == <<chain, accounts, txOwner, overlay, pushQueue, pendingSweeps, mempool, now,
          _hashCount, _lastHashrate, _hashrateWorker, intervals, _hashrate, _lastHashCounts,
          _totalHashCount, _lastElapsed, _totalElapsed, _mempoolChanged, pc, loc, fired>>
accountsTestVars == <<accountsTree, testBlock, accountsHash1, accountsHash2, testPc>>
blockTestVars == <<newArgs, block1, thrown, serialized, block2, blockPc>>
nimiqVars == <<browser, _loaded, _loadPromise, promisesCreated, _onload, _core, scripts, scriptEvents,
               timeouts, execPc, loadCaller, initCall, getResult>>
nonMinerVars == <<accountsTestVars, blockTestVars, nimiqVars>>
notAccountsTestVars == <<minerVars, blockTestVars, nimiqVars>>
notBlockTestVars == <<minerVars, accountsTestVars, nimiqVars>>
notNimiqVars == <<minerVars, accountsTestVars, blockTestVars>>
vars == <<minerVars, nonMinerVars>>

blockchainVars == <<chain, accounts, pushQueue, pendingSweeps>>
accountsTxVars == <<txOwner, overlay>>
hashrateVars == <<_hashCount, _lastHashrate, _hashrateWorker, _hashrate, _lastHashCounts,
                  _totalHashCount, _lastElapsed, _totalElapsed>>

\* ------------------------------------------------------------ blockchain
headHash == Len(chain)
head == chain[Len(chain)]
height == Len(chain)

\* The target of the successor of the block with hash h (Blockchain.getNextTarget):
\* it is a function of the parent, and differs from parent to parent.
NextTarget(h) == h

\* The interlink of the successor of the block with hash h, given its target.
NextInterlink(h, target) == <<h, target>>

\* Accounts.commitBlockBody on state s: every transaction bumps its sender's
\* nonce, so a transaction that s already holds no longer applies.
BodyApplies(s, body) == body \cap s.txs = {}
ApplyBody(s, body) == [txs |-> s.txs \cup body, rewards |-> s.rewards + 1]

NoOverlay == [txs |-> {}, rewards |-> 0]
GenesisAccounts == [txs |-> {}, rewards |-> 0]
GenesisBlock == [timestamp |-> 0, body |-> {}]

\* ----------------------------------------------------------------- miner
working == _hashrateWorker

NoCand == [nextTarget |-> 0, interlink |-> <<>>, body |-> {}, prevHash |-> 0,
           accountsHash |-> NoOverlay, nBits |-> 0, height |-> 0, timestamp |-> 0,
           nonce |-> 0]

FreeSlots == {c \in Slots : pc[c] = "none"}
FreeSlot == CHOOSE c \in FreeSlots : \A d \in FreeSlots : c <= d

Max(a, b) == IF a >= b THEN a ELSE b

RECURSIVE Sum(_)
Sum(s) == IF s = <<>> THEN 0 ELSE Head(s) + Sum(Tail(s))

\* The Accounts test is not running.
AccountsTestOff ==
    /\ accountsTree = {}
    /\ testBlock = [minerAddr |-> 0, transactions |-> <<>>]
    /\ accountsHash1 = {}
    /\ accountsHash2 = {}
    /\ testPc = "off"

NoValue == [type |-> "undefined"]
NoBuffer == [bytes |-> <<>>, readPos |-> 0]

\* The Block test is not running.
BlockTestOff ==
    /\ newArgs = [header |-> NoValue, interlink |-> NoValue, body |-> NoValue]
    /\ block1 = NoValue
    /\ thrown = ""
    /\ serialized = NoBuffer
    /\ block2 = NoValue
    /\ blockPc = "off"

ERR_WAIT == -1
ERR_UNSUPPORTED == -2
ERR_UNKNOWN == -3

NoPromise == [state |-> "null", reason |-> 0]
FullSupport ==
    [nativePromise |-> TRUE, nativeGoodies |-> TRUE, nativeClassSupport |-> TRUE,
     properScoping |-> TRUE, asyncAwaitSupport |-> TRUE, properCryptoApi |-> TRUE,
     supportForP256 |-> TRUE]
NoLoadCaller == [pc |-> "none", calls |-> 0, returned |-> "none", thenCalls |-> 0,
                 catchCalls |-> <<>>]
NoInitCall == [pc |-> "none", ready |-> "returns", waits |-> 0, readyCalls |-> 0,
               errorCalls |-> <<>>]

\* Nimiq.js, lines 195-207: the statics once the file is evaluated; nothing
\* was called yet.
NimiqStatics ==
    /\ _loaded = FALSE
    /\ _loadPromise = NoPromise
    /\ promisesCreated = 0
    /\ _onload = FALSE
    /\ _core = "undefined"
    /\ scripts = <<>>
    /\ scriptEvents = 0
    /\ timeouts = 0
    /\ execPc = "none"
    /\ loadCaller = NoLoadCaller
    /\ initCall = NoInitCall
    /\ getResult = [thrown |-> FALSE, value |-> "none"]

NimiqOff == browser = FullSupport /\ NimiqStatics

MinerInit ==
    /\ chain = <<GenesisBlock>>
    /\ accounts = GenesisAccounts
    /\ txOwner = 0
    /\ overlay = NoOverlay
    /\ pushQueue = <<>>
    /\ pendingSweeps = 0
    /\ mempool = {}
    /\ now = 0
    /\ _hashCount = 0
    /\ _lastHashrate = 0
    /\ _hashrateWorker = FALSE
    /\ intervals = 0
    /\ _hashrate = 0
    /\ _lastHashCounts = <<>>
    /\ _totalHashCount = 0
    /\ _lastElapsed = <<>>
    /\ _totalElapsed = 0
    /\ _mempoolChanged = FALSE
    /\ pc = [c \in Slots |-> "none"]
    /\ loc = [c \in Slots |-> NoCand]
    /\ fired = <<>>

Init == MinerInit /\ AccountsTestOff /\ BlockTestOff /\ NimiqOff

\* ------------------------------------------------ blockchain and mempool
\* Blockchain: a valid block that extends the head becomes the head; the
\* accounts state is advanced by its body and 'head-changed' makes the Mempool
\* begin an eviction sweep, which ends with 'transactions-ready'.
Extend(block) ==
    /\ chain' = Append(chain, block)
    /\ accounts' = ApplyBody(accounts, block.body)
    /\ pendingSweeps' = pendingSweeps + 1

\* Blockchain.pushBlock, steps 4 and 5: the checks of a block against its parent.
ValidSuccessor(b) ==
    /\ b.prevHash = headHash
    /\ b.height = height + 1
    /\ b.timestamp >= head.timestamp + 1
    /\ b.nBits = NextTarget(headHash)
    /\ b.interlink = NextInterlink(headHash, NextTarget(headHash))
    /\ BodyApplies(accounts, b.body)
    /\ b.accountsHash = ApplyBody(accounts, b.body)

\* _startWork() up to its first await (lines 108-115, 172-173): in slot c a new
\* coroutine waits for blockchain.getNextTarget(), which reads the head when called.
StartWorkPc(pcf, c) == [pcf EXCEPT ![c] = "getNextTarget"]
StartWorkLoc(locf, c) == [locf EXCEPT ![c] = [NoCand EXCEPT !.nextTarget = NextTarget(headHash)]]

EndPc(pcf, c) == [pcf EXCEPT ![c] = "none"]
EndLoc(locf, c) == [locf EXCEPT ![c] = NoCand]

\* A block of another miner arrives and extends the head.
NetworkBlock(txs, ts) ==
    /\ Len(chain) < MaxChainLen
    /\ txOwner = 0
    /\ BodyApplies(accounts, txs)
    /\ ts >= head.timestamp + 1
    /\ Extend([timestamp |-> ts, body |-> txs])
    /\ fired' = <<>>
    /\ UNCHANGED <<accountsTxVars, pushQueue, mempool, now, hashrateVars, _mempoolChanged, pc, loc>>
    /\ UNCHANGED <<intervals, nonMinerVars>>

\* The blockchain processes the oldest pending pushBlock call.
ProcessPush ==
    /\ pushQueue # <<>>
    /\ txOwner = 0
    /\ LET b == Head(pushQueue) IN
        /\ pushQueue' = Tail(pushQueue)
        /\ IF ValidSuccessor(b)
              THEN Extend([timestamp |-> b.timestamp, body |-> b.body])
              ELSE UNCHANGED <<chain, accounts, pendingSweeps>>
    /\ fired' = <<>>
    /\ UNCHANGED <<accountsTxVars, mempool, now, hashrateVars, _mempoolChanged, pc, loc>>
    /\ UNCHANGED <<intervals, nonMinerVars>>

\* Mempool.pushTransaction accepts a transaction that is valid on the head.
MempoolAccepts(tx) ==
    /\ tx \notin mempool
    /\ tx \notin accounts.txs
    /\ mempool' = mempool \cup {tx}

\* The Mempool's sweep after a head change: what no longer applies is evicted.
MempoolSweep ==
    /\ pendingSweeps > 0
    /\ pendingSweeps' = pendingSweeps - 1
    /\ mempool' = {t \in mempool : t \notin accounts.txs}

\* A listener of 'transactions-ready' that does not restart the work.
OnTransactionsReadyIgnored == UNCHANGED <<pc, loc>>

\* A _startWork that does not look at working.
InnerStartWorkAlways == FALSE

\* _startWork, lines 110-112
InnerStartWorkReturns == ~working

\* The listener of 'transaction-added', line 84.
OnTransactionAdded == _mempoolChanged' = TRUE

\* The listener of 'transactions-ready', line 81: _startWork(), which returns
\* at once unless the miner is working (lines 110-112).
OnTransactionsReady ==
    /\ ~InnerStartWorkReturns => FreeSlots # {}
    /\ IF InnerStartWorkReturns
          THEN UNCHANGED <<pc, loc>>
          ELSE /\ pc' = StartWorkPc(pc, FreeSlot)
               /\ loc' = StartWorkLoc(loc, FreeSlot)

\* The mempool accepts tx and fires 'transaction-added'.
TransactionAdded(tx) ==
    /\ MempoolAccepts(tx)
    /\ OnTransactionAdded
    /\ fired' = <<>>
    /\ UNCHANGED <<blockchainVars, accountsTxVars, now, hashrateVars, pc, loc>>
    /\ UNCHANGED <<intervals, nonMinerVars>>

\* The mempool finishes a sweep and fires 'transactions-ready'.
TransactionsReady ==
    /\ MempoolSweep
    /\ OnTransactionsReady
    /\ fired' = <<[ev |-> "transactions-ready"]>>
    /\ UNCHANGED <<chain, accounts, pushQueue, accountsTxVars, now, hashrateVars, _mempoolChanged>>
    /\ UNCHANGED <<intervals, nonMinerVars>>

\* The clock advances by one second. A second is long: an installed interval
\* timer (line 99) is never more than a second late, and no candidate is still
\* being assembled when the second ends.
AdvanceTime ==
    /\ now < MaxTime
    /\ _hashrateWorker => now < _lastHashrate + 2
    /\ \A c \in Slots : pc[c] \in {"none", "verifyProofOfWork"}
    /\ now' = now + 1
    /\ fired' = <<>>
    /\ UNCHANGED <<blockchainVars, accountsTxVars, mempool, hashrateVars, _mempoolChanged, pc, loc>>
    /\ UNCHANGED <<intervals, nonMinerVars>>

\* ------------------------------------------------- startWork / stopWork
\* A startWork that does not look at working.
StartWorkAlways == FALSE

\* lines 88-90
StartWorkReturns == working

\* lines 245-247
StopWorkReturns == ~working

\* startWork(), lines 87-106, with _startWork() up to its first await.
StartWork ==
    IF StartWorkReturns
       THEN /\ fired' = <<>>
            /\ UNCHANGED <<blockchainVars, accountsTxVars, mempool, now, hashrateVars,
                           _mempoolChanged, pc, loc, intervals>>
            /\ UNCHANGED nonMinerVars
       ELSE /\ FreeSlots # {}
            /\ _hashCount' = 0
            /\ _lastElapsed' = <<>>
            /\ _lastHashCounts' = <<>>
            /\ _totalHashCount' = 0
            /\ _totalElapsed' = 0
            /\ _lastHashrate' = now
            /\ _hashrateWorker' = TRUE
            /\ intervals' = intervals + 1
            /\ fired' = <<[ev |-> "start"]>>
            /\ pc' = StartWorkPc(pc, FreeSlot)
            /\ loc' = StartWorkLoc(loc, FreeSlot)
            /\ UNCHANGED <<blockchainVars, accountsTxVars, mempool, now, _hashrate,
                           _mempoolChanged>>
            /\ UNCHANGED nonMinerVars

\* stopWork(), lines 243-261
StopWork ==
    IF StopWorkReturns
       THEN /\ fired' = <<>>
            /\ UNCHANGED <<blockchainVars, accountsTxVars, mempool, now, hashrateVars,
                           _mempoolChanged, pc, loc, intervals>>
            /\ UNCHANGED nonMinerVars
       ELSE /\ intervals' = intervals - 1
            /\ _hashrateWorker' = FALSE
            /\ _hashrate' = 0
            /\ _lastElapsed' = <<>>
            /\ _lastHashCounts' = <<>>
            /\ _totalHashCount' = 0
            /\ _totalElapsed' = 0
            /\ fired' = <<[ev |-> "stop"]>>
            /\ UNCHANGED <<blockchainVars, accountsTxVars, mempool, now, _hashCount,
                           _lastHashrate, _mempoolChanged, pc, loc>>
            /\ UNCHANGED nonMinerVars

\* ------------------------------------------------- candidate assembly
\* Each action resumes the coroutine in slot c at the await it is named after
\* and runs it up to its next await.

\* line 173 resumes; line 174 reads blockchain.head for the interlink.
GetNextTargetDone(c) ==
    /\ pc[c] = "getNextTarget"
    /\ loc' = [loc EXCEPT ![c].interlink = NextInterlink(headHash, loc[c].nextTarget)]
    /\ pc' = [pc EXCEPT ![c] = "getNextInterlink"]
    /\ fired' = <<>>
    /\ UNCHANGED <<blockchainVars, accountsTxVars, mempool, now, hashrateVars, _mempoolChanged>>
    /\ UNCHANGED <<intervals, nonMinerVars>>

\* line 174 resumes; _getNextBody (lines 224-229) takes the mempool's transactions,
\* _getNextHeader reads headHash (line 188) and awaits interlink.hash() (line 189).
GetNextInterlinkDone(c) ==
    /\ pc[c] = "getNextInterlink"
    /\ loc' = [loc EXCEPT ![c].body = mempool, ![c].prevHash = headHash]
    /\ pc' = [pc EXCEPT ![c] = "interlinkHash"]
    /\ fired' = <<>>
    /\ UNCHANGED <<blockchainVars, accountsTxVars, mempool, now, hashrateVars, _mempoolChanged>>
    /\ UNCHANGED <<intervals, nonMinerVars>>

\* line 189 resumes; line 192 asks for an Accounts transaction.
InterlinkHashDone(c) ==
    /\ pc[c] = "interlinkHash"
    /\ pc' = [pc EXCEPT ![c] = "transaction"]
    /\ fired' = <<>>
    /\ UNCHANGED <<blockchainVars, accountsTxVars, mempool, now, hashrateVars, _mempoolChanged, loc>>
    /\ UNCHANGED <<intervals, nonMinerVars>>

\* line 192 resumes with the transaction, which is granted when no other one is
\* open; line 195 calls commitBlockBody.
TransactionOpened(c) ==
    /\ pc[c] = "transaction"
    /\ txOwner = 0
    /\ txOwner' = c
    /\ overlay' = accounts
    /\ pc' = [pc EXCEPT ![c] = "commitBlockBody"]
    /\ fired' = <<>>
    /\ UNCHANGED <<blockchainVars, mempool, now, hashrateVars, _mempoolChanged, loc>>
    /\ UNCHANGED <<intervals, nonMinerVars>>

\* line 195 resumes normally; line 196 asks for the hash.
CommitBlockBodyDone(c) ==
    /\ pc[c] = "commitBlockBody"
    /\ BodyApplies(overlay, loc[c].body)
    /\ overlay' = ApplyBody(overlay, loc[c].body)
    /\ pc' = [pc EXCEPT ![c] = "accountsHash"]
    /\ fired' = <<>>
    /\ UNCHANGED <<blockchainVars, txOwner, mempool, now, hashrateVars, _mempoolChanged, loc>>
    /\ UNCHANGED <<intervals, nonMinerVars>>

\* line 195 throws; the catch block calls abort (line 199).
CommitBlockBodyFailed(c) ==
    /\ pc[c] = "commitBlockBody"
    /\ ~BodyApplies(overlay, loc[c].body)
    /\ pc' = [pc EXCEPT ![c] = "abortInvalid"]
    /\ fired' = <<>>
    /\ UNCHANGED <<blockchainVars, accountsTxVars, mempool, now, hashrateVars, _mempoolChanged, loc>>
    /\ UNCHANGED <<intervals, nonMinerVars>>

\* line 196 resumes with the hash; line 197 calls abort.
AccountsHashDone(c) ==
    /\ pc[c] = "accountsHash"
    /\ loc' = [loc EXCEPT ![c].accountsHash = overlay]
    /\ pc' = [pc EXCEPT ![c] = "abort"]
    /\ fired' = <<>>
    /\ UNCHANGED <<blockchainVars, accountsTxVars, mempool, now, hashrateVars, _mempoolChanged>>
    /\ UNCHANGED <<intervals, nonMinerVars>>

\* What closing the candidate's Accounts transaction leaves as the committed
\* state: abort() discards the overlay.
CloseCommitting(committed, inTx) == inTx
CloseTransaction(committed, inTx) == committed

\* line 197 resumes: the transaction is closed; line 203 awaits body.hash().
AbortDone(c) ==
    /\ pc[c] = "abort"
    /\ accounts' = CloseTransaction(accounts, overlay)
    /\ txOwner' = 0
    /\ overlay' = NoOverlay
    /\ pc' = [pc EXCEPT ![c] = "bodyHash"]
    /\ fired' = <<>>
    /\ UNCHANGED <<chain, pushQueue, pendingSweeps, mempool, now, hashrateVars, _mempoolChanged, loc>>
    /\ UNCHANGED <<intervals, nonMinerVars>>

\* A catch block that goes on to line 203 with the rejected body.
InvalidBodyContinues(pcf, c) == [pcf EXCEPT ![c] = "bodyHash"]

\* line 200: the error the catch block throws, which ends _getNextHeader,
\* _getNextBlock and _startWork.
InvalidBlockBody == [ev |-> "throw", error |-> "Invalid block body"]
InvalidBodyThrows(pcf, c) == EndPc(pcf, c)

\* line 199 resumes: the transaction is closed; line 200 throws.
AbortInvalidDone(c) ==
    /\ pc[c] = "abortInvalid"
    /\ accounts' = CloseTransaction(accounts, overlay)
    /\ txOwner' = 0
    /\ overlay' = NoOverlay
    /\ pc' = InvalidBodyThrows(pc, c)
    /\ loc' = EndLoc(loc, c)
    /\ fired' = <<InvalidBlockBody>>
    /\ UNCHANGED <<chain, pushQueue, pendingSweeps, mempool, now, hashrateVars, _mempoolChanged>>
    /\ UNCHANGED <<intervals, nonMinerVars>>

\* Math.round(Math.random() * 100000), cut down to two values.
InitialNonces == {0, 1}

\* _getNextTimestamp, lines 235-238.
GetNextTimestamp == Max(now, head.timestamp + 1)

\* BlockUtils.targetToCompact: the compact form determines the target.
TargetToCompact(target) == target

\* line 203 resumes; lines 204-208 build the header, line 177 the block, which
\* _startWork awaits (line 115).
BodyHashDone(c, nonce) ==
    /\ pc[c] = "bodyHash"
    /\ loc' = [loc EXCEPT ![c].height = height + 1,
                          ![c].timestamp = GetNextTimestamp,
                          ![c].nBits = TargetToCompact(loc[c].nextTarget),
                          ![c].nonce = nonce]
    /\ pc' = [pc EXCEPT ![c] = "getNextBlock"]
    /\ fired' = <<>>
    /\ UNCHANGED <<blockchainVars, accountsTxVars, mempool, now, hashrateVars, _mempoolChanged>>
    /\ UNCHANGED <<intervals, nonMinerVars>>

\* ------------------------------------------------------- the search loop
\* The checks with the head compared before the flag is read.
MineChecksHeadFirst(mc, prevHash) ==
    IF headHash # prevHash THEN "drop"
    ELSE IF mc THEN "restart"
    ELSE IF ~working THEN "stop"
    ELSE "hash"

\* A loop that looks at the flag only and hashes on whatever the head is and
\* whether or not the miner was stopped.
MineChecksFlagOnly(mc, prevHash) == IF mc THEN "restart" ELSE "hash"


\* The preemption checks of _mine, lines 128-141, for a candidate on prevHash
\* when the flag _mempoolChanged reads mc.
MineChecks(mc, prevHash) ==
    IF mc THEN "restart"
    ELSE IF headHash # prevHash THEN "drop"
    ELSE IF ~working THEN "stop"
    ELSE "hash"

\* A _mine that returns at line 129 without calling _startWork.
MinePcNoRestart(pcf, c, outcome) ==
    IF outcome = "hash" THEN [pcf EXCEPT ![c] = "verifyProofOfWork"]
    ELSE EndPc(pcf, c)

\* _mine(block, buffer) up to its first await, for the outcome of its checks:
\* "restart" calls _startWork() (line 129), which returns at once unless the
\* miner is working; "hash" awaits verifyProofOfWork (line 147).
MinePc(pcf, c, outcome) ==
    IF outcome = "hash" THEN [pcf EXCEPT ![c] = "verifyProofOfWork"]
    ELSE IF outcome = "restart" /\ working THEN StartWorkPc(pcf, c)
    ELSE EndPc(pcf, c)
MineLoc(locf, c, outcome) ==
    IF outcome = "hash" THEN locf
    ELSE IF outcome = "restart" /\ working THEN StartWorkLoc(locf, c)
    ELSE EndLoc(locf, c)

\* line 115 resumes with the block; lines 116-122 clear the flag and call _mine.
GetNextBlockDone(c) ==
    /\ pc[c] = "getNextBlock"
    /\ _mempoolChanged' = FALSE
    /\ LET outcome == MineChecks(FALSE, loc[c].prevHash) IN
        /\ pc' = MinePc(pc, c, outcome)
        /\ loc' = MineLoc(loc, c, outcome)
    /\ fired' = <<>>
    /\ UNCHANGED <<blockchainVars, accountsTxVars, mempool, now, hashrateVars>>
    /\ UNCHANGED <<intervals, nonMinerVars>>

\* The same calls with the block pushed before the observers are told.
FoundCallsPushFirst(block) == <<[ev |-> "pushBlock", block |-> block], [ev |-> "block-mined", block |-> block]>>

\* What _mine does with a block that meets the target, lines 153-158.
FoundCalls(block) == <<[ev |-> "block-mined", block |-> block], [ev |-> "pushBlock", block |-> block]>>

PushedBlocks(calls) == SelectSeq(calls, LAMBDA e : e.ev = "pushBlock")

\* line 147 resumes with isPoW = true.
ProofOfWorkFound(c) ==
    /\ pc[c] = "verifyProofOfWork"
    /\ _hashCount < MaxHashCount
    /\ Len(pushQueue) < MaxQueue
    /\ loc[c].prevHash < MaxChainLen
    /\ _hashCount' = _hashCount + 1
    /\ fired' = FoundCalls(loc[c])
    /\ pushQueue' = pushQueue \o [i \in 1..Len(PushedBlocks(fired')) |-> PushedBlocks(fired')[i].block]
    /\ pc' = EndPc(pc, c)
    /\ loc' = EndLoc(loc, c)
    /\ UNCHANGED <<chain, accounts, pendingSweeps, accountsTxVars, mempool, now, _lastHashrate,
                   _hashrateWorker, _hashrate, _lastHashCounts, _totalHashCount, _lastElapsed,
                   _totalElapsed, _mempoolChanged>>
    /\ UNCHANGED <<intervals, nonMinerVars>>

\* An else branch that leaves the nonce as it is.
NonceKept(nonce) == nonce

\* line 161: block.header.nonce++
NextNonce(nonce) == nonce + 1

\* line 147 resumes with isPoW = false: lines 161-164 bump the nonce and call _mine.
ProofOfWorkFailed(c) ==
    /\ pc[c] = "verifyProofOfWork"
    /\ _hashCount < MaxHashCount
    /\ loc[c].nonce < MaxNonce
    /\ _hashCount' = _hashCount + 1
    /\ LET outcome == MineChecks(_mempoolChanged, loc[c].prevHash)
           bumped == [loc EXCEPT ![c].nonce = NextNonce(loc[c].nonce)]
       IN
        /\ pc' = MinePc(pc, c, outcome)
        /\ loc' = MineLoc(bumped, c, outcome)
    /\ fired' = <<>>
    /\ UNCHANGED <<blockchainVars, accountsTxVars, mempool, now, _lastHashrate,
                   _hashrateWorker, _hashrate, _lastHashCounts, _totalHashCount, _lastElapsed,
                   _totalElapsed, _mempoolChanged>>
    /\ UNCHANGED <<intervals, nonMinerVars>>

\* -------------------------------------------------- hashrate estimator
\* Math.round(a / b) for a >= 0, b > 0.
Round(a, b) == (2 * a + b) \div (2 * b)

\* Array.pop() in place of Array.shift(): the newest element.
Popped(list) == list[Len(list)]

\* Array.shift(), lines 281-282: the element removed and what is left.
Shifted(list) == Head(list)
AfterShift(list) == Tail(list)

\* The interval timer fires (line 99): _updateHashrate, lines 267-291.
UpdateHashrate ==
    /\ intervals > 0
    /\ now > _lastHashrate
    /\ LET elapsed == now - _lastHashrate
           hashCount == _hashCount
           pushedElapsed == Append(_lastElapsed, elapsed)
           pushedCounts == Append(_lastHashCounts, hashCount)
           evict == Len(pushedElapsed) > MOVING_AVERAGE_MAX_SIZE
           totalElapsed == IF evict THEN _totalElapsed + elapsed - Shifted(pushedElapsed)
                                    ELSE _totalElapsed + elapsed
           totalHashCount == IF evict THEN _totalHashCount + hashCount - Shifted(pushedCounts)
                                      ELSE _totalHashCount + hashCount
       IN
        /\ _hashCount' = 0
        /\ _lastHashrate' = now
        /\ _lastElapsed' = IF evict THEN AfterShift(pushedElapsed) ELSE pushedElapsed
        /\ _lastHashCounts' = IF evict THEN AfterShift(pushedCounts) ELSE pushedCounts
        /\ _totalElapsed' = totalElapsed
        /\ _totalHashCount' = totalHashCount
        /\ _hashrate' = Round(totalHashCount, totalElapsed)
        /\ fired' = <<[ev |-> "hashrate-changed", hashrate |-> Round(totalHashCount, totalElapsed)]>>
    /\ UNCHANGED <<blockchainVars, accountsTxVars, mempool, now, _hashrateWorker, _mempoolChanged,
                   pc, loc>>
    /\ UNCHANGED <<intervals, nonMinerVars>>

\* ------------------------------------------------------- specifications
Assemble(c) ==
    \/ GetNextTargetDone(c)
    \/ GetNextInterlinkDone(c)
    \/ InterlinkHashDone(c)
    \/ TransactionOpened(c)
    \/ CommitBlockBodyDone(c)
    \/ AccountsHashDone(c)
    \/ AbortDone(c)
    \/ \E nonce \in InitialNonces : BodyHashDone(c, nonce)
    \/ GetNextBlockDone(c)

Next ==
    \/ \E txs \in SUBSET Tx : \E ts \in {head.timestamp + 1, GetNextTimestamp} : NetworkBlock(txs, ts)
    \/ ProcessPush
    \/ \E tx \in Tx : TransactionAdded(tx)
    \/ TransactionsReady
    \/ StartWork
    \/ StopWork
    \/ \E c \in Slots :
        \/ Assemble(c)
        \/ CommitBlockBodyFailed(c)
        \/ AbortInvalidDone(c)
        \/ ProofOfWorkFound(c)
        \/ ProofOfWorkFailed(c)

\* Mining: the miner, the blockchain and the mempool in every interleaving. The
\* clock stands still and the hashrate timer does not fire, so at most
\* MaxHashCount attempts are made between two calls of startWork.
Spec == Init /\ [][Next]_vars

\* Mining under fair scheduling: a suspended coroutine is resumed once what it
\* awaits is there (every promise the Miner awaits settles and its continuation
\* runs), and a finished sweep is announced.
Resume(c) == Assemble(c) \/ CommitBlockBodyFailed(c) \/ AbortInvalidDone(c)

SpecLive ==
    /\ Init
    /\ [][Next]_vars
    /\ \A c \in Slots : WF_vars(Resume(c))
    /\ WF_vars(TransactionsReady)

\* The estimator on its own: the miner is started and stopped and hashes, the
\* chain and the mempool stay as they are, and the clock runs long enough for
\* the moving average to fill up and evict.
NextHashrate ==
    \/ AdvanceTime
    \/ StartWork
    \/ StopWork
    \/ UpdateHashrate
    \/ \E c \in Slots :
        \/ Assemble(c)
        \/ ProofOfWorkFailed(c)

SpecHashrate == Init /\ [][NextHashrate]_vars

\* =============================================================== claims
\* Slot c ran a step of its coroutine.
Stepped(c) == pc'[c] # pc[c] \/ loc'[c] # loc[c]

\* Slot c entered _mine in this step: from _startWork (line 122), where the flag
\* has just been cleared, or from a failed attempt (line 164).
EnteredMine(c) ==
    \/ pc[c] = "getNextBlock" /\ Stepped(c)
    \/ pc[c] = "verifyProofOfWork" /\ Stepped(c) /\ fired' = <<>>
FlagAtEntry(c) == IF pc[c] = "getNextBlock" THEN FALSE ELSE _mempoolChanged

FiredEvents(kinds) == {i \in DOMAIN fired : fired[i].ev \in kinds}

\* C1: whenever _mine calls pushBlock(block), block.prevHash is the blockchain's
\* headHash at that moment: a candidate whose parent is no longer the head is
\* never pushed.
C1_NeverPushesStale ==
    \A i \in FiredEvents({"pushBlock"}) : fired[i].block.prevHash = headHash

\* C2: every proof-of-work attempt is begun in the very step that evaluated the
\* three preemption checks, and only if none fired; a set _mempoolChanged flag
\* restarts assembly (whatever the head and the working state are), otherwise
\* a changed head or a stopped miner ends the loop.
C2_PreemptionChecks ==
    [][\A c \in Slots : EnteredMine(c) =>
        LET mc == FlagAtEntry(c)
            stale == headHash # loc[c].prevHash
        IN /\ (pc'[c] = "verifyProofOfWork") <=> (~mc /\ ~stale /\ working)
           /\ mc => pc'[c] = (IF working THEN "getNextTarget" ELSE "none")
           /\ (~mc /\ (stale \/ ~working)) => pc'[c] = "none"]_vars

\* C2 witness: an attempt is in flight after an earlier attempt of the same
\* working session was completed.
C2_Witness == \E c \in Slots : pc[c] = "verifyProofOfWork" /\ _hashCount > 0 /\ working

\* C3: while the miner is stopped it fires no 'block-mined' and makes no
\* pushBlock call.
C3_NoBlockAfterStop ==
    ~working => FiredEvents({"block-mined", "pushBlock"}) = {}

\* C4: a working miner begins no candidate assembly while a head change is
\* still waiting for its 'transactions-ready'.
C4_NoAssemblyBeforeSweep ==
    [][(working /\ \E c \in Slots : pc'[c] = "getNextTarget" /\ Stepped(c)) => pendingSweeps' = 0]_vars

\* The awaits at which a coroutine holds the Accounts transaction it opened.
InTransaction == {"commitBlockBody", "accountsHash", "abort", "abortInvalid"}

\* C6: no step of the miner's coroutines changes the chain or the committed
\* accounts state (the transaction opened for a candidate is aborted, never
\* committed), and a coroutine holds an Accounts transaction only between
\* opening it and its abort: none is left open once _getNextHeader has returned
\* or thrown.
C6_AssemblyLeavesStateUntouched ==
    /\ [](\A c \in Slots : txOwner = c => pc[c] \in InTransaction)
    /\ [][(\E c \in Slots : Stepped(c)) => (chain' = chain /\ accounts' = accounts)]_vars

\* C6 witness: a candidate has been assembled whose accountsHash differs from the
\* hash of the committed state, after its transaction was closed.
C6_Witness ==
    \E c \in Slots : pc[c] = "bodyHash" /\ txOwner = 0 /\ loc[c].body # {}
                     /\ loc[c].accountsHash # accounts

\* C7: an attempt that finds a proof of work fires 'block-mined' and then calls
\* pushBlock, once each and with the block that was searched, and ends the loop
\* of that candidate; an attempt that does not fires nothing and pushes nothing.
C7_FoundFiresThenPushes ==
    [][\A c \in Slots : (pc[c] = "verifyProofOfWork" /\ Stepped(c)) =>
        \/ /\ fired' = <<[ev |-> "block-mined", block |-> loc[c]], [ev |-> "pushBlock", block |-> loc[c]]>>
           /\ pushQueue' = Append(pushQueue, loc[c])
           /\ pc'[c] = "none"
        \/ /\ fired' = <<>>
           /\ pushQueue' = pushQueue]_vars

\* C7 witness: a block has just been found and handed to the blockchain.
C7_Witness ==
    /\ Len(fired) = 2
    /\ fired[1].ev = "block-mined"
    /\ pushQueue # <<>>
    /\ pushQueue[Len(pushQueue)] = fired[1].block

\* C9: the header of every assembled candidate has
\* timestamp = max(now, parent.timestamp + 1), parent being the block its own
\* prevHash names.
C9_TimestampFromParent ==
    \A c \in Slots : pc[c] \in {"getNextBlock", "verifyProofOfWork"} =>
        loc[c].timestamp = Max(now, chain[loc[c].prevHash].timestamp + 1)

\* C10: the two windows lists have the same length, at most
\* MOVING_AVERAGE_MAX_SIZE, the totals are the sums of the lists, and a tick
\* leaves _hashCount at 0 and fires 'hashrate-changed' once, with
\* round(_totalHashCount / _totalElapsed).
C10_HashrateEstimator ==
    /\ Len(_lastElapsed) = Len(_lastHashCounts)
    /\ Len(_lastElapsed) <= MOVING_AVERAGE_MAX_SIZE
    /\ _totalHashCount = Sum(_lastHashCounts)
    /\ _totalElapsed = Sum(_lastElapsed)
    /\ FiredEvents({"hashrate-changed"}) # {} =>
        /\ _hashCount = 0
        /\ Len(fired) = 1
        /\ fired[1].hashrate = Round(_totalHashCount, _totalElapsed)
        /\ _hashrate = fired[1].hashrate

\* C10 witness: a tick has just filled the lists to their full length with
\* windows of different lengths and hash counts, the oldest one with hashes.
C10_Witness ==
    /\ FiredEvents({"hashrate-changed"}) # {}
    /\ Len(_lastElapsed) = MOVING_AVERAGE_MAX_SIZE
    /\ \E i, j \in DOMAIN _lastElapsed : _lastElapsed[i] # _lastElapsed[j]
    /\ _lastHashCounts[1] > 0
    /\ _lastHashCounts[Len(_lastHashCounts)] = 0

\* A candidate on the block with hash h is being hashed.
HashingOn(h) == \E c \in Slots : pc[c] = "verifyProofOfWork" /\ loc[c].prevHash = h

\* C5: when 'transactions-ready' is delivered to a working miner after the head
\* changed to h, then, unless the miner is stopped or the head changes again,
\* a candidate whose prevHash is h is eventually assembled and hashed.
C5_RestartAfterPreemption ==
    \A h \in 2..MaxChainLen :
        (working /\ fired = <<[ev |-> "transactions-ready"]>> /\ headHash = h)
            ~> (HashingOn(h) \/ ~working \/ headHash # h)

\* C5 witness: after the sweep of a head change, a working miner hashes a
\* candidate on the new head.
C5_Witness ==
    /\ working
    /\ pendingSweeps = 0
    /\ headHash > 1
    /\ HashingOn(headHash)

\* A search is running: an attempt is in flight.
Searching == \E c \in Slots : pc[c] = "verifyProofOfWork"

\* A handler that ran during the attempt of slot c left something for the
\* loop's checks to see.
Preempted(c) == _mempoolChanged \/ headHash # loc[c].prevHash \/ ~working

Addr == 1..MaxAddr
ZeroAccount == [balance |-> 0, nonce |-> 0]
BlockReward == 1

Terminals(tree, addr) == {t \in tree : t.addr = addr}

\* AccountsTree.get
TreeGet(tree, addr) ==
    IF Terminals(tree, addr) = {} THEN ZeroAccount
    ELSE (CHOOSE t \in tree : t.addr = addr).account

\* A put that keeps the terminal of a zero account.
TreePutKeepsZero(tree, addr, acct) ==
    (tree \ Terminals(tree, addr)) \cup {[addr |-> addr, account |-> acct]}

\* AccountsTree.put: a zero account is deleted instead of stored.
TreePut(tree, addr, acct) ==
    IF acct = ZeroAccount THEN tree \ Terminals(tree, addr)
    ELSE (tree \ Terminals(tree, addr)) \cup {[addr |-> addr, account |-> acct]}

AccountsHash(tree) == tree

\* commitBlockBody, step 2: the conditions under which a transaction applies.
TxApplies(tree, tx) ==
    LET sender == TreeGet(tree, tx.sender) IN
        /\ sender.balance >= tx.value + tx.fee
        /\ sender.nonce = tx.nonce
        /\ ~(tx.sender = tx.recipient /\ tx.value # 0)

\* commitBlockBody, step 2: debit the sender, bump its nonce, credit the
\* recipient.
ApplyTx(tree, tx) ==
    LET sender == TreeGet(tree, tx.sender)
        debited == TreePut(tree, tx.sender,
                       [balance |-> sender.balance - (tx.value + tx.fee),
                        nonce |-> sender.nonce + 1])
        recipient == TreeGet(debited, tx.recipient)
    IN TreePut(debited, tx.recipient,
           [balance |-> recipient.balance + tx.value, nonce |-> recipient.nonce])

\* revertBlockBody: the effects of one transaction undone.
RevertTx(tree, tx) ==
    LET recipient == TreeGet(tree, tx.recipient)
        debited == TreePut(tree, tx.recipient,
                       [balance |-> recipient.balance - tx.value, nonce |-> recipient.nonce])
        sender == TreeGet(debited, tx.sender)
    IN TreePut(debited, tx.sender,
           [balance |-> sender.balance + tx.value + tx.fee, nonce |-> sender.nonce - 1])

RECURSIVE CommitTxs(_, _)
CommitTxs(tree, txs) ==
    IF txs = <<>> THEN [ok |-> TRUE, tree |-> tree]
    ELSE IF ~TxApplies(tree, Head(txs)) THEN [ok |-> FALSE, tree |-> tree]
    ELSE CommitTxs(ApplyTx(tree, Head(txs)), Tail(txs))

\* The transactions are undone in reverse order.
RECURSIVE RevertTxs(_, _)
RevertTxs(tree, txs) ==
    IF txs = <<>> THEN tree
    ELSE RevertTxs(RevertTx(tree, txs[Len(txs)]), SubSeq(txs, 1, Len(txs) - 1))

RECURSIVE Fees(_)
Fees(txs) == IF txs = <<>> THEN 0 ELSE Head(txs).fee + Fees(Tail(txs))

MinerCredit(blockBody) == BlockReward + Fees(blockBody.transactions)

\* Accounts.commitBlockBody: the transactions in order, then the miner's
\* credit; a body with a transaction that does not apply leaves the tree as
\* it was (the transaction on the tree is aborted).
commitBlockBody(tree, blockBody) ==
    LET r == CommitTxs(tree, blockBody.transactions)
        miner == TreeGet(r.tree, blockBody.minerAddr)
    IN IF r.ok
          THEN [ok |-> TRUE,
                tree |-> TreePut(r.tree, blockBody.minerAddr,
                             [balance |-> miner.balance + MinerCredit(blockBody),
                              nonce |-> miner.nonce])]
          ELSE [ok |-> FALSE, tree |-> tree]

\* Accounts.revertBlockBody: the miner's credit undone, then the transactions
\* in reverse order.
revertBlockBody(tree, blockBody) ==
    LET miner == TreeGet(tree, blockBody.minerAddr)
        uncredited == TreePut(tree, blockBody.minerAddr,
                          [balance |-> miner.balance - MinerCredit(blockBody),
                           nonce |-> miner.nonce])
    IN RevertTxs(uncredited, blockBody.transactions)

\* ------------------------------------------------- the test of Accounts
Accounts == [balance : 0..MaxBalance, nonce : 0..MaxAccountNonce]
Transactions == [sender : Addr, recipient : Addr, value : 0..1, fee : 0..1,
                 nonce : 0..MaxAccountNonce]
TxLists == UNION {[1..n -> Transactions] : n \in 0..MaxBodyTx}
Bodies == [minerAddr : Addr, transactions : TxLists]

\* The tree that holds the accounts f gives to the addresses.
TreeOf(f) == {[addr |-> a, account |-> f[a]] : a \in {b \in Addr : f[b] # ZeroAccount}}

\* The test starts on any accounts state with any block.
InitAccounts ==
    /\ MinerInit
    /\ BlockTestOff
    /\ NimiqOff
    /\ accountsTree \in {TreeOf(f) : f \in [Addr -> Accounts]}
    /\ testBlock \in Bodies
    /\ accountsHash1 = {}
    /\ accountsHash2 = {}
    /\ testPc = "start"

\* part_000, lines 6-7: the hash is taken and the block applied.  A block that
\* does not apply is rejected and the test of the property ends.
ApplyBlock ==
    /\ testPc = "start"
    /\ accountsHash1' = AccountsHash(accountsTree)
    /\ LET r == commitBlockBody(accountsTree, testBlock) IN
        /\ accountsTree' = r.tree
        /\ testPc' = IF r.ok THEN "applied" ELSE "invalid"
    /\ UNCHANGED <<notAccountsTestVars, testBlock, accountsHash2>>

\* part_000, lines 8-9: the block is reverted and the hash taken again.
RevertBlock ==
    /\ testPc = "applied"
    /\ accountsTree' = revertBlockBody(accountsTree, testBlock)
    /\ accountsHash2' = AccountsHash(accountsTree')
    /\ testPc' = "reverted"
    /\ UNCHANGED <<notAccountsTestVars, testBlock, accountsHash1>>

NextAccounts == ApplyBlock \/ RevertBlock

SpecAccounts == InitAccounts /\ [][NextAccounts]_vars

\* C11: after a valid block was applied and reverted, the accounts hash is the
\* hash taken before the apply, and every address has the account it had.
C11_ApplyRevertIdentity ==
    testPc = "reverted" => accountsHash2 = accountsHash1

\* C11 witness: a block with two transactions was applied and reverted on a
\* tree in which the miner and a recipient had no terminal.
C11_Witness ==
    /\ testPc = "reverted"
    /\ Len(testBlock.transactions) = 2
    /\ Terminals(accountsTree, testBlock.minerAddr) = {}
    /\ \E i \in 1..2 : /\ testBlock.transactions[i].value > 0
                       /\ Terminals(accountsTree, testBlock.transactions[i].recipient) = {}

\* =================================================================== Block
\* A block is (header, interlink, body?).  Values carry the class they are an
\* instance of in their field `type`.  The wire format is written and read
\* byte by byte, integers big-endian.
HashSize == 32
AddressSize == 20
PublicKeySize == 32
SignatureSize == 64
\* The eight fields of a header: four hashes and four 32-bit integers.
HeaderSerializedSize == 4 * HashSize + 4 * 4
TransactionSize == 136

Fill(b, n) == [i \in 1..n |-> b]

RECURSIVE BE(_, _)
\* The w bytes of n, most significant first.
BE(n, w) == IF w = 0 THEN <<>> ELSE BE(n \div 256, w - 1) \o <<n % 256>>

RECURSIVE FromBE(_)
FromBE(bytes) ==
    IF bytes = <<>> THEN 0
    ELSE 256 * FromBE(SubSeq(bytes, 1, Len(bytes) - 1)) + bytes[Len(bytes)]

RECURSIVE Concat(_)
Concat(seqs) == IF seqs = <<>> THEN <<>> ELSE Head(seqs) \o Concat(Tail(seqs))

\* The n bytes at offset off of the read position of buf.
At(buf, off, n) == SubSeq(buf.bytes, buf.readPos + off + 1, buf.readPos + off + n)
Skip(buf, n) == [buf EXCEPT !.readPos = @ + n]

\* BlockHeader: 32 + 32 + 32 + 32 + 4 + 4 + 4 + 4 bytes.
HeaderSerialize(h) ==
    h.prevHash \o h.interlinkHash \o h.bodyHash \o h.accountsHash
        \o BE(h.nBits, 4) \o BE(h.height, 4) \o BE(h.timestamp, 4) \o BE(h.nonce, 4)

\* A reader of the header that takes the nonce for the timestamp and the
\* timestamp for the nonce.
HeaderUnserializeNonceFirst(buf) ==
    [type |-> "BlockHeader",
     prevHash |-> At(buf, 0, HashSize),
     interlinkHash |-> At(buf, HashSize, HashSize),
     bodyHash |-> At(buf, 2 * HashSize, HashSize),
     accountsHash |-> At(buf, 3 * HashSize, HashSize),
     nBits |-> FromBE(At(buf, 4 * HashSize, 4)),
     height |-> FromBE(At(buf, 4 * HashSize + 4, 4)),
     timestamp |-> FromBE(At(buf, 4 * HashSize + 12, 4)),
     nonce |-> FromBE(At(buf, 4 * HashSize + 8, 4))]

HeaderUnserialize(buf) ==
    [type |-> "BlockHeader",
     prevHash |-> At(buf, 0, HashSize),
     interlinkHash |-> At(buf, HashSize, HashSize),
     bodyHash |-> At(buf, 2 * HashSize, HashSize),
     accountsHash |-> At(buf, 3 * HashSize, HashSize),
     nBits |-> FromBE(At(buf, 4 * HashSize, 4)),
     height |-> FromBE(At(buf, 4 * HashSize + 4, 4)),
     timestamp |-> FromBE(At(buf, 4 * HashSize + 8, 4)),
     nonce |-> FromBE(At(buf, 4 * HashSize + 12, 4))]

\* BlockInterlink: the number of hashes in one byte, then the hashes.
InterlinkSerializedSize(il) == 1 + HashSize * Len(il.hashes)
InterlinkSerialize(il) == <<Len(il.hashes) % 256>> \o Concat(il.hashes)
RECURSIVE ReadHashes(_, _)
\* The n hashes at the read position of buf.
ReadHashes(buf, n) ==
    IF n = 0 THEN <<>>
    ELSE <<At(buf, 0, HashSize)>> \o ReadHashes(Skip(buf, HashSize), n - 1)
InterlinkUnserialize(buf) ==
    [type |-> "BlockInterlink", hashes |-> ReadHashes(Skip(buf, 1), At(buf, 0, 1)[1])]

\* Transaction: sender public key, recipient, value, fee, nonce, signature.
TransactionSerialize(tx) ==
    tx.senderPubKey \o tx.recipient \o BE(tx.value, 8) \o BE(tx.fee, 8)
        \o BE(tx.nonce, 4) \o tx.signature
TransactionUnserialize(buf) ==
    [senderPubKey |-> At(buf, 0, PublicKeySize),
     recipient |-> At(buf, PublicKeySize, AddressSize),
     value |-> FromBE(At(buf, PublicKeySize + AddressSize, 8)),
     fee |-> FromBE(At(buf, PublicKeySize + AddressSize + 8, 8)),
     nonce |-> FromBE(At(buf, PublicKeySize + AddressSize + 16, 4)),
     signature |-> At(buf, PublicKeySize + AddressSize + 20, SignatureSize)]

\* BlockBody: the number of transactions in one byte, the transactions, the
\* miner's address.
BodySerializedSize(b) == 1 + TransactionSize * Len(b.transactions) + AddressSize
BodySerialize(b) ==
    <<Len(b.transactions) % 256>>
        \o Concat([i \in 1..Len(b.transactions) |-> TransactionSerialize(b.transactions[i])])
        \o b.minerAddr
RECURSIVE ReadTransactions(_, _)
\* The n transactions at the read position of buf.
ReadTransactions(buf, n) ==
    IF n = 0 THEN <<>>
    ELSE <<TransactionUnserialize(buf)>>
             \o ReadTransactions(Skip(buf, TransactionSize), n - 1)
BodyUnserialize(buf) ==
    LET count == At(buf, 0, 1)[1] IN
        [type |-> "BlockBody",
         transactions |-> ReadTransactions(Skip(buf, 1), count),
         minerAddr |-> At(buf, 1 + count * TransactionSize, AddressSize)]

HasBody(b) == b.body.type = "BlockBody"

\* A constructor that looks at the interlink before it looks at the header.
BlockConstructorInterlinkFirst(header, interlink, body) ==
    IF interlink.type # "BlockInterlink"
        THEN [thrown |-> "Malformed interlink", block |-> NoValue]
    ELSE IF header.type # "BlockHeader"
        THEN [thrown |-> "Malformed header", block |-> NoValue]
    ELSE IF body.type \notin {"undefined", "BlockBody"}
        THEN [thrown |-> "Malformed body", block |-> NoValue]
    ELSE [thrown |-> "",
          block |-> [type |-> "Block", header |-> header, interlink |-> interlink,
                     body |-> body]]

\* new Block(header, interlink, body): the parts are checked in this order;
\* the body may be left out.
BlockConstructor(header, interlink, body) ==
    IF header.type # "BlockHeader"
        THEN [thrown |-> "Malformed header", block |-> NoValue]
    ELSE IF interlink.type # "BlockInterlink"
        THEN [thrown |-> "Malformed interlink", block |-> NoValue]
    ELSE IF body.type \notin {"undefined", "BlockBody"}
        THEN [thrown |-> "Malformed body", block |-> NoValue]
    ELSE [thrown |-> "",
          block |-> [type |-> "Block", header |-> header, interlink |-> interlink,
                     body |-> body]]

\* Block.serializedSize
BlockSerializedSize(b) ==
    HeaderSerializedSize + InterlinkSerializedSize(b.interlink) + 1
        + (IF HasBody(b) THEN BodySerializedSize(b.body) ELSE 0)

\* Block.serialize(): header, interlink, the body-present flag, the body.
BlockSerialize(b) ==
    [bytes |-> HeaderSerialize(b.header) \o InterlinkSerialize(b.interlink)
                   \o (IF HasBody(b) THEN <<1>> \o BodySerialize(b.body) ELSE <<0>>),
     readPos |-> 0]

\* Block.unserialize(buf)
BlockUnserialize(buf) ==
    LET header == HeaderUnserialize(buf)
        atInterlink == Skip(buf, HeaderSerializedSize)
        interlink == InterlinkUnserialize(atInterlink)
        atFlag == Skip(atInterlink, InterlinkSerializedSize(interlink))
        bodyPresent == At(atFlag, 0, 1)[1]
        body == IF bodyPresent # 0 THEN BodyUnserialize(Skip(atFlag, 1)) ELSE NoValue
    IN BlockConstructor(header, interlink, body).block

\* ------------------------------------------------------ the tests of Block
\* What the tests pass for a part that is not of the class asked for.
Malformed == {[type |-> t] : t \in {"undefined", "null", "number", "Uint8Array", "Block"}}

Hashes == {Fill(17, HashSize), Fill(255, HashSize)}
Headers ==
    [type : {"BlockHeader"}, prevHash : Hashes, interlinkHash : {Fill(1, HashSize)},
     bodyHash : {Fill(2, HashSize)}, accountsHash : {Fill(3, HashSize)},
     nBits : {258, 16777216}, height : {1, 65536}, timestamp : {0, 16777217},
     nonce : {0, 258, 65536}]
Interlinks ==
    [type : {"BlockInterlink"},
     hashes : UNION {[1..n -> Hashes] : n \in 0..MaxInterlink}]
WireTransactions ==
    [senderPubKey : {Fill(4, PublicKeySize)},
     recipient : {Fill(5, AddressSize), Fill(6, AddressSize)},
     value : {0, 258}, fee : {1}, nonce : {0, 16777216},
     signature : {Fill(7, SignatureSize)}]
WireBodies ==
    [type : {"BlockBody"}, minerAddr : {Fill(8, AddressSize)},
     transactions : UNION {[1..n -> WireTransactions] : n \in 0..MaxBlockTx}]

InitBlock ==
    /\ MinerInit
    /\ AccountsTestOff
    /\ NimiqOff
    /\ newArgs \in [header : Headers \cup Malformed,
                    interlink : Interlinks \cup Malformed,
                    body : WireBodies \cup (Malformed \ {[type |-> "null"]})]
    /\ block1 = NoValue
    /\ thrown = ""
    /\ serialized = NoBuffer
    /\ block2 = NoValue
    /\ blockPc = "new"

\* new Block(header, interlink, body)
NewBlock ==
    /\ blockPc = "new"
    /\ LET r == BlockConstructor(newArgs.header, newArgs.interlink, newArgs.body) IN
        /\ block1' = r.block
        /\ thrown' = r.thrown
        /\ blockPc' = IF r.thrown = "" THEN "constructed" ELSE "thrown"
    /\ UNCHANGED <<notBlockTestVars, newArgs, serialized, block2>>

\* Block.spec.js, line 76: block.serialize()
Serialize ==
    /\ blockPc = "constructed"
    /\ serialized' = BlockSerialize(block1)
    /\ blockPc' = "serialized"
    /\ UNCHANGED <<notBlockTestVars, newArgs, block1, thrown, block2>>

\* Block.spec.js, line 76: Block.unserialize(...)
Unserialize ==
    /\ blockPc = "serialized"
    /\ block2' = BlockUnserialize(serialized)
    /\ serialized' = Skip(serialized, BlockSerializedSize(block2'))
    /\ blockPc' = "unserialized"
    /\ UNCHANGED <<notBlockTestVars, newArgs, block1, thrown>>

\* ------------------------------------------------------------ BlockMessage
\* The frame of a Message: magic, type, length of the message and checksum.
MessageMagic == 1107566658
MessageTypeSize == 12
MessageSerializedSize == 4 + MessageTypeSize + 4 + 4
ChecksumOffset == 4 + MessageTypeSize + 4

\* Message.Type.BLOCK, 'block' padded with zero bytes
MessageTypeBlock == <<98, 108, 111, 99, 107>> \o Fill(0, MessageTypeSize - 5)

\* Message.serialize(buf): the frame with the checksum still to be set.
MessageSerialize(msgType, size) ==
    BE(MessageMagic, 4) \o msgType \o BE(size, 4) \o BE(0, 4)

RECURSIVE ByteSum(_, _, _)
\* The sum of bytes[lo..hi], by halves.
ByteSum(bytes, lo, hi) ==
    IF lo > hi THEN 0
    ELSE IF lo = hi THEN bytes[lo]
    ELSE ByteSum(bytes, lo, (lo + hi) \div 2) + ByteSum(bytes, (lo + hi) \div 2 + 1, hi)

\* The digest of what the buffer holds.
Checksum(bytes) == ByteSum(bytes, 1, Len(bytes))

\* Message._setChecksum(buf): the digest of the buffer written into its frame.
SetChecksum(bytes) ==
    SubSeq(bytes, 1, ChecksumOffset) \o BE(Checksum(bytes), 4)
        \o SubSeq(bytes, ChecksumOffset + 5, Len(bytes))

\* Message.unserialize(buf): the frame is read.
MessageUnserialize(buf) ==
    [magic |-> FromBE(At(buf, 0, 4)),
     msgType |-> At(buf, 4, MessageTypeSize),
     length |-> FromBE(At(buf, 4 + MessageTypeSize, 4)),
     checksum |-> FromBE(At(buf, ChecksumOffset, 4))]

\* new BlockMessage(block), lines 5-10
BlockMessageConstructor(block) ==
    [type |-> "BlockMessage", msgType |-> MessageTypeBlock, _header |-> block]

\* BlockMessage.serializedSize, lines 35-38
BlockMessageSerializedSize(msg) == MessageSerializedSize + BlockSerializedSize(msg._header)

\* A serialize that sets the checksum before the block is written.
BlockMessageSerializeChecksumFirst(msg) ==
    [bytes |-> SetChecksum(MessageSerialize(msg.msgType, BlockMessageSerializedSize(msg)))
                   \o BlockSerialize(msg._header).bytes,
     readPos |-> 0]

\* BlockMessage.serialize(), lines 26-32
BlockMessageSerialize(msg) ==
    [bytes |-> SetChecksum(MessageSerialize(msg.msgType, BlockMessageSerializedSize(msg))
                               \o BlockSerialize(msg._header).bytes),
     readPos |-> 0]

\* BlockMessage.unserialize(buf), lines 16-20
BlockMessageUnserialize(buf) ==
    BlockMessageConstructor(BlockUnserialize(Skip(buf, MessageSerializedSize)))

\* new BlockMessage(block).serialize()
SerializeMessage ==
    /\ blockPc = "constructed"
    /\ serialized' = BlockMessageSerialize(BlockMessageConstructor(block1))
    /\ blockPc' = "messageSerialized"
    /\ UNCHANGED <<notBlockTestVars, newArgs, block1, thrown, block2>>

\* BlockMessage.unserialize(...).block
UnserializeMessage ==
    /\ blockPc = "messageSerialized"
    /\ block2' = BlockMessageUnserialize(serialized)._header
    /\ serialized' = Skip(serialized, BlockMessageSerializedSize(BlockMessageUnserialize(serialized)))
    /\ blockPc' = "messageUnserialized"
    /\ UNCHANGED <<notBlockTestVars, newArgs, block1, thrown>>

NextBlock == NewBlock \/ Serialize \/ Unserialize \/ SerializeMessage \/ UnserializeMessage

SpecBlock == InitBlock /\ [][NextBlock]_vars

Pending == [state |-> "pending", reason |-> 0]
Resolved == [state |-> "resolved", reason |-> 0]
Rejected(reason) == [state |-> "rejected", reason |-> reason]

\* What ready() may do when it is called, and the integer it throws if it
\* throws one.
ReadyBehaviours == {"returns", "throwsInteger", "throwsOther"}
ThrownInteger == 42

\* A get() that does not look at _core.
NimiqGetUnchecked(core) == [thrown |-> FALSE, value |-> core]

\* Nimiq.get(), lines 39-42
NimiqGet(core) ==
    IF core = "undefined" THEN [thrown |-> TRUE, value |-> "none"]
    ELSE [thrown |-> FALSE, value |-> core]

\* What Nimiq.load() returns (lines 68, 69, 104): the stub, Promise.resolve()
\* or _loadPromise.
LoadReturns ==
    IF ~browser.nativePromise THEN "stub"
    ELSE IF _loaded THEN "resolved"
    ELSE "loadPromise"

\* The promise a caller of load() holds.
Awaited(returned) == IF returned = "resolved" THEN Resolved ELSE _loadPromise

\* Lines 95-102 and _loadScript, lines 44-60: _onload is assigned and the
\* script is appended to the head.
LoadScript(script) ==
    /\ _onload' = TRUE
    /\ scripts' = Append(scripts, script)

\* A load() that never finds a promise in Nimiq._loadPromise.
LoadPromiseNeverCached == FALSE

\* line 70: Nimiq._loadPromise || ...
LoadPromiseCached == _loadPromise.state # "null"

\* Nimiq.load(), lines 67-105, with the executor of a new promise run up to
\* its first await or its end.
Load ==
    IF ~browser.nativePromise \/ _loaded \/ LoadPromiseCached
        THEN UNCHANGED <<_loadPromise, promisesCreated, _onload, scripts, execPc>>
    ELSE /\ promisesCreated' = promisesCreated + 1
         /\ IF ~browser.nativeClassSupport \/ ~browser.properScoping
               THEN /\ _loadPromise' = Rejected(ERR_UNSUPPORTED)
                    /\ UNCHANGED <<_onload, scripts, execPc>>
            ELSE IF ~browser.asyncAwaitSupport
               THEN /\ _loadPromise' = Pending
                    /\ LoadScript("web-babel.js")
                    /\ UNCHANGED execPc
            ELSE IF ~browser.properCryptoApi
               THEN /\ _loadPromise' = Pending
                    /\ LoadScript("web-crypto.js")
                    /\ UNCHANGED execPc
            ELSE /\ _loadPromise' = Pending
                 /\ execPc' = "hasSupportForP256"
                 /\ UNCHANGED <<_onload, scripts>>

\* A callback that resolves whether or not the library was loaded.
OnloadResolves(promise, loaded) ==
    IF promise.state = "pending" THEN Resolved ELSE promise

\* Nimiq._onload, lines 95-101; settling a settled promise changes nothing.
Onload(promise, loaded) ==
    IF promise.state # "pending" THEN promise
    ELSE IF ~loaded THEN Rejected(ERR_UNKNOWN)
    ELSE Resolved

\* The page calls Nimiq.load().then(...).catch(...).  The stub calls the catch
\* handler at once (lines 151-161).
LoadCalled ==
    /\ loadCaller.pc \in {"none", "done"}
    /\ loadCaller.calls < MaxLoadCalls
    /\ Load
    /\ loadCaller' =
           IF LoadReturns = "stub"
              THEN [pc |-> "done", calls |-> loadCaller.calls + 1, returned |-> "stub",
                    thenCalls |-> 0, catchCalls |-> <<ERR_UNSUPPORTED>>]
              ELSE [pc |-> "awaiting", calls |-> loadCaller.calls + 1,
                    returned |-> LoadReturns, thenCalls |-> 0, catchCalls |-> <<>>]
    /\ UNCHANGED <<notNimiqVars, browser, _loaded, _core, scriptEvents, timeouts,
                   initCall, getResult>>

\* The promise the page holds is settled and its handler runs.
LoadSettled ==
    /\ loadCaller.pc = "awaiting"
    /\ Awaited(loadCaller.returned).state \in {"resolved", "rejected"}
    /\ loadCaller' =
           IF Awaited(loadCaller.returned).state = "resolved"
              THEN [loadCaller EXCEPT !.pc = "done", !.thenCalls = @ + 1]
              ELSE [loadCaller EXCEPT !.pc = "done",
                       !.catchCalls = Append(@, Awaited(loadCaller.returned).reason)]
    /\ UNCHANGED <<notNimiqVars, promisesCreated, browser, _loaded, _loadPromise, _onload, _core, scripts,
                   scriptEvents, timeouts, execPc, initCall, getResult>>

\* Line 81 resumes after await _hasSupportForP256(); lines 82-102.
ExecutorResumed ==
    /\ execPc = "hasSupportForP256"
    /\ execPc' = "none"
    /\ LoadScript(IF browser.supportForP256 THEN "web.js" ELSE "web-crypto.js")
    /\ UNCHANGED <<notNimiqVars, promisesCreated, browser, _loaded, _loadPromise, _core, scriptEvents,
                   timeouts, loadCaller, initCall, getResult>>

\* The appended script fires onload or onreadystatechange: line 54 delays the
\* callback by a second.
ScriptEvent ==
    /\ scripts # <<>>
    /\ scriptEvents < MaxScriptEvents
    /\ scriptEvents' = scriptEvents + 1
    /\ timeouts' = timeouts + 1
    /\ UNCHANGED <<notNimiqVars, promisesCreated, browser, _loaded, _loadPromise, _onload, _core, scripts,
                   execPc, loadCaller, initCall, getResult>>

\* The timeout of line 54 expires and calls Nimiq._onload.
TimeoutExpired ==
    /\ timeouts > 0
    /\ timeouts' = timeouts - 1
    /\ _loadPromise' = Onload(_loadPromise, _loaded)
    /\ UNCHANGED <<notNimiqVars, promisesCreated, browser, _loaded, _onload, _core, scripts, scriptEvents,
                   execPc, loadCaller, initCall, getResult>>

\* The appended script is evaluated: the library sets Nimiq._loaded and may
\* call Nimiq._onload itself.
ScriptEvaluated(callsOnload) ==
    /\ scripts # <<>>
    /\ ~_loaded
    /\ _loaded' = TRUE
    /\ _loadPromise' = IF callsOnload THEN Onload(_loadPromise, TRUE) ELSE _loadPromise
    /\ UNCHANGED <<notNimiqVars, promisesCreated, browser, _onload, _core, scripts, scriptEvents, timeouts,
                   execPc, loadCaller, initCall, getResult>>

\* Code of the loaded library stores the Core in Nimiq._core.
CoreAssigned ==
    /\ _loaded
    /\ _core = "undefined"
    /\ _core' = "Core"
    /\ UNCHANGED <<notNimiqVars, promisesCreated, browser, _loaded, _loadPromise, _onload, scripts,
                   scriptEvents, timeouts, execPc, loadCaller, initCall, getResult>>

\* Nimiq.get()
GetCalled ==
    /\ getResult' = NimiqGet(_core)
    /\ UNCHANGED <<notNimiqVars, promisesCreated, browser, _loaded, _loadPromise, _onload, _core, scripts,
                   scriptEvents, timeouts, execPc, loadCaller, initCall>>

\* Nimiq.init(ready, error), lines 172-193, up to the call of
\* waitForSingleWindow.
InitCalled(ready) ==
    /\ initCall.pc = "none"
    /\ initCall' =
           IF ~browser.nativePromise \/ ~browser.nativeGoodies
              THEN [NoInitCall EXCEPT !.pc = "done", !.ready = ready,
                                      !.errorCalls = <<ERR_UNSUPPORTED>>]
              ELSE [NoInitCall EXCEPT !.pc = "waitForSingleWindow", !.ready = ready]
    /\ UNCHANGED <<notNimiqVars, promisesCreated, browser, _loaded, _loadPromise, _onload, _core, scripts,
                   scriptEvents, timeouts, execPc, loadCaller, getResult>>

\* The window detector finds another window and calls fnWait, line 192.
WaitCalled ==
    /\ initCall.pc = "waitForSingleWindow"
    /\ initCall.waits < MaxWaits
    /\ initCall' = [initCall EXCEPT !.waits = @ + 1, !.errorCalls = Append(@, ERR_WAIT)]
    /\ UNCHANGED <<notNimiqVars, promisesCreated, browser, _loaded, _loadPromise, _onload, _core, scripts,
                   scriptEvents, timeouts, execPc, loadCaller, getResult>>

\* The window detector finds a single window and calls fnReady, which runs up
\* to await Nimiq.load(), line 181.
SingleWindow ==
    /\ initCall.pc = "waitForSingleWindow"
    /\ Load
    /\ initCall' = [initCall EXCEPT !.pc = LoadReturns]
    /\ UNCHANGED <<notNimiqVars, browser, _loaded, _core, scriptEvents, timeouts,
                   loadCaller, getResult>>

\* Line 181 resumes: lines 182-183 if the load was resolved, with whatever
\* ready() throws caught at line 184; lines 184-190 if it was rejected.
InitResumed ==
    /\ initCall.pc \in {"resolved", "loadPromise"}
    /\ Awaited(initCall.pc).state \in {"resolved", "rejected"}
    /\ initCall' =
           IF Awaited(initCall.pc).state = "rejected"
              THEN [initCall EXCEPT !.pc = "done",
                       !.errorCalls = Append(@, Awaited(initCall.pc).reason)]
           ELSE IF initCall.ready = "returns"
              THEN [initCall EXCEPT !.pc = "done", !.readyCalls = @ + 1]
           ELSE IF initCall.ready = "throwsInteger"
              THEN [initCall EXCEPT !.pc = "done", !.readyCalls = @ + 1,
                       !.errorCalls = Append(@, ThrownInteger)]
           ELSE [initCall EXCEPT !.pc = "done", !.readyCalls = @ + 1,
                    !.errorCalls = Append(@, ERR_UNKNOWN)]
    /\ UNCHANGED <<notNimiqVars, promisesCreated, browser, _loaded, _loadPromise, _onload, _core, scripts,
                   scriptEvents, timeouts, execPc, loadCaller, getResult>>

Browsers ==
    [nativePromise : BOOLEAN, nativeGoodies : BOOLEAN, nativeClassSupport : BOOLEAN,
     properScoping : BOOLEAN, asyncAwaitSupport : BOOLEAN, properCryptoApi : BOOLEAN,
     supportForP256 : BOOLEAN]

InitNimiq ==
    /\ MinerInit
    /\ AccountsTestOff
    /\ BlockTestOff
    /\ browser \in Browsers
    /\ NimiqStatics

NextNimiq ==
    \/ LoadCalled
    \/ LoadSettled
    \/ ExecutorResumed
    \/ ScriptEvent
    \/ TimeoutExpired
    \/ \E callsOnload \in BOOLEAN : ScriptEvaluated(callsOnload)
    \/ CoreAssigned
    \/ GetCalled
    \/ \E ready \in ReadyBehaviours : InitCalled(ready)
    \/ WaitCalled
    \/ SingleWindow
    \/ InitResumed

SpecNimiq == InitNimiq /\ [][NextNimiq]_vars

\* The load promise is settled by this step.
LoadPromiseSettles == _loadPromise.state = "pending" /\ _loadPromise'.state # "pending"

\* A load callback runs in this step: a timeout of a script event expires, or
\* the evaluated library calls Nimiq._onload.
OnloadRuns == timeouts' < timeouts \/ (_loaded' /\ ~_loaded /\ LoadPromiseSettles)

\* What load() does in a browser that lacks class support or proper scoping.
UnsupportedRejected ==
    (browser.nativePromise /\ (~browser.nativeClassSupport \/ ~browser.properScoping))
        => /\ scripts = <<>>
           /\ _loadPromise \in {NoPromise, Rejected(ERR_UNSUPPORTED)}
           /\ loadCaller.thenCalls = 0
           /\ \A i \in 1..Len(loadCaller.catchCalls) :
                  loadCaller.catchCalls[i] = ERR_UNSUPPORTED

\* What load() does in a browser without native promises.
StubReturned ==
    ~browser.nativePromise
        => /\ _loadPromise = NoPromise
           /\ scripts = <<>>
           /\ loadCaller.thenCalls = 0
           /\ loadCaller.pc # "awaiting"
           /\ loadCaller.pc = "done"
                  => loadCaller.returned = "stub"
                     /\ loadCaller.catchCalls = <<ERR_UNSUPPORTED>>

\* C14: the promise of Nimiq.load() is resolved only by a load callback that
\* finds _loaded true, and a load callback that finds it false rejects the
\* pending promise with ERR_UNKNOWN; without class support or proper scoping
\* the promise is rejected with ERR_UNSUPPORTED and no script is loaded;
\* without native promises load() returns a stub whose catch handler is
\* called at once with ERR_UNSUPPORTED and whose then handler never is.
C14_LoadOutcomes ==
    /\ [](_loadPromise.state = "resolved" => _loaded)
    /\ [](loadCaller.thenCalls > 0 => _loaded)
    /\ [](_loadPromise.state = "rejected"
             => _loadPromise.reason \in {ERR_UNKNOWN, ERR_UNSUPPORTED})
    /\ [](UnsupportedRejected)
    /\ [](StubReturned)
    /\ [][LoadPromiseSettles
             => /\ OnloadRuns
                /\ _loadPromise' = IF _loaded' THEN Resolved ELSE Rejected(ERR_UNKNOWN)]_vars
    /\ [][(OnloadRuns /\ _loadPromise.state = "pending")
             => _loadPromise' = IF _loaded' THEN Resolved ELSE Rejected(ERR_UNKNOWN)]_vars

\* A caller's catch handler has received ERR_UNKNOWN from a callback that ran
\* before the library was loaded, and the library was loaded afterwards.
C14_Witness ==
    /\ _loadPromise = Rejected(ERR_UNKNOWN)
    /\ loadCaller.catchCalls = <<ERR_UNKNOWN>>
    /\ scripts = <<"web.js">>
    /\ _loaded

\* The codes init() documents for its error callback.
ErrorCodes == {ERR_WAIT, ERR_UNSUPPORTED, ERR_UNKNOWN}

\* C15: init() calls ready only after load() has resolved, calls error only
\* with ERR_WAIT, ERR_UNSUPPORTED or ERR_UNKNOWN, calls error(ERR_UNSUPPORTED)
\* and starts neither the wait nor a load where native promises or
\* Number.isInteger are missing, and never calls both ready and error for a
\* call whose wait for a single window succeeded at once.
C15_InitCallbacks ==
    /\ initCall.readyCalls > 0 => _loaded
    /\ \A i \in 1..Len(initCall.errorCalls) : initCall.errorCalls[i] \in ErrorCodes
    /\ (initCall.pc # "none" /\ (~browser.nativePromise \/ ~browser.nativeGoodies))
           => /\ initCall.pc = "done"
              /\ initCall.errorCalls = <<ERR_UNSUPPORTED>>
              /\ initCall.waits = 0
              /\ initCall.readyCalls = 0
    /\ initCall.waits = 0 => ~(initCall.readyCalls > 0 /\ initCall.errorCalls # <<>>)

\* The same for a ready() that returns.
C15_WhenReadyReturns == initCall.ready = "returns" => C15_InitCallbacks

\* C16: get() throws and returns nothing whenever Nimiq._core is unset, and
\* what it returns is the Core, which is there only once the library is loaded.
C16_GetThrowsUntilInitialized ==
    /\ [](getResult.thrown => getResult.value = "none")
    /\ [](getResult.value # "none" => getResult.value = "Core" /\ _core = "Core" /\ _loaded)
    /\ [][getResult' # getResult => (getResult'.thrown <=> _core = "undefined")]_vars

\* get() has thrown after init() had called ready.
C16_Witness ==
    /\ getResult.thrown
    /\ _core = "undefined"
    /\ initCall.pc = "done"
    /\ initCall.readyCalls = 1

\* ================================================== Miner: further claims
\* C17: when commitBlockBody fails for the candidate of slot c, the catch
\* block is entered with the transaction still open; its abort closes the
\* Accounts transaction without committing, 'Invalid block body' is thrown,
\* and the coroutine ends with its candidate: no hash attempt is counted,
\* nothing is fired and nothing is pushed for it.
C17_InvalidBodyEndsAssembly ==
    [][\A c \in Slots :
        /\ (pc[c] = "commitBlockBody" /\ ~BodyApplies(overlay, loc[c].body) /\ Stepped(c))
               => /\ pc'[c] = "abortInvalid"
                  /\ UNCHANGED <<accounts, txOwner, pushQueue, _hashCount>>
                  /\ fired' = <<>>
        /\ (pc[c] = "abortInvalid" /\ Stepped(c))
               => /\ pc'[c] = "none"
                  /\ loc'[c] = NoCand
                  /\ txOwner' = 0
                  /\ overlay' = NoOverlay
                  /\ fired' = <<InvalidBlockBody>>
                  /\ UNCHANGED <<accounts, chain, pushQueue, _hashCount>>]_vars

\* 'Invalid block body' has just been thrown while the miner is working, and
\* no transaction is open any more.
C17_Witness ==
    /\ fired = <<InvalidBlockBody>>
    /\ working
    /\ txOwner = 0
    /\ overlay = NoOverlay

\* Everything of the miner and its surroundings but the record of what the
\* last step fired.
minerState == <<blockchainVars, accountsTxVars, mempool, now, hashrateVars, intervals,
                _mempoolChanged, pc, loc>>

\* C18: working is true exactly while the hashrate timer is installed, and
\* there is never more than one; 'start' is fired only by a step that turns
\* working on, 'stop' only by a step that turns it off, and working changes in
\* no other step, so that the two events alternate, 'start' first; startWork
\* on a working miner and stopWork on an idle one fire nothing and change
\* nothing.
C18_Lifecycle ==
    /\ ~working
    /\ [](intervals = IF working THEN 1 ELSE 0)
    /\ [][LET started == \E i \in DOMAIN fired' : fired'[i].ev = "start"
              stopped == \E i \in DOMAIN fired' : fired'[i].ev = "stop"
          IN
            /\ started => ~working /\ working' /\ fired' = <<[ev |-> "start"]>>
            /\ stopped => working /\ ~working' /\ fired' = <<[ev |-> "stop"]>>
            /\ working' # working => started \/ stopped
            /\ (StartWork /\ working) => fired' = <<>> /\ UNCHANGED minerState
            /\ (StopWork /\ ~working) => fired' = <<>> /\ UNCHANGED minerState]_vars

\* The miner has just been started for the second time: the coroutine of its
\* first working period is still suspended.
C18_Witness ==
    /\ fired = <<[ev |-> "start"]>>
    /\ \A c \in Slots : pc[c] # "none"
    /\ intervals = 1

\* C19: a 'transactions-ready' event delivered while the miner is not working
\* starts nothing: no coroutine is created or moved, no candidate changes, no
\* Accounts transaction is opened and no hash attempt is counted.
C19_ReadyWhileIdleStartsNothing ==
    [][(fired' = <<[ev |-> "transactions-ready"]>> /\ ~working)
          => UNCHANGED <<pc, loc, txOwner, overlay, _hashCount, hashrateVars, intervals>>]_vars

\* 'transactions-ready' has just been delivered to a stopped miner that still
\* has a coroutine of its last working period.
C19_Witness ==
    /\ fired = <<[ev |-> "transactions-ready"]>>
    /\ ~working
    /\ \E c \in Slots : pc[c] # "none"
    /\ FreeSlots # {}

\* This step ends a proof-of-work attempt that failed: the attempt is counted
\* and nothing is fired.
FailedAttempt == _hashCount' = _hashCount + 1 /\ fired' = <<>>

\* C20: a failed attempt belongs to one candidate being searched; if its search
\* goes on, its nonce is larger by exactly one and the rest of its header is
\* as before, and no other step changes a candidate whose search goes on. So
\* the nonces tried for a candidate are consecutive from its initial nonce.
C20_NonceIncrements ==
    [][/\ FailedAttempt =>
            \E c \in Slots :
                /\ pc[c] = "verifyProofOfWork"
                /\ Stepped(c)
                /\ \A d \in Slots \ {c} : ~Stepped(d)
                /\ pc'[c] = "verifyProofOfWork"
                       => loc'[c] = [loc[c] EXCEPT !.nonce = loc[c].nonce + 1]
       /\ \A c \in Slots :
            (pc[c] = "verifyProofOfWork" /\ pc'[c] = "verifyProofOfWork" /\ ~FailedAttempt)
                => loc'[c] = loc[c]]_vars

\* The only candidate there has been is searched with its second nonce after
\* one failed attempt.
C20_Witness ==
    \E c \in Slots :
        /\ pc[c] = "verifyProofOfWork"
        /\ loc[c].nonce = 1
        /\ _hashCount = 1
        /\ \A d \in Slots \ {c} : pc[d] = "none"
        /\ Len(chain) = 1
        /\ pushQueue = <<>>
        /\ mempool = {}
        /\ ~_mempoolChanged

\* The awaits of an assembly whose commitBlockBody has succeeded: the
\* coroutine goes on to call _mine with its candidate.
WillSearch == {"accountsHash", "abort", "bodyHash", "getNextBlock"}

\* C21: no search loop is alive together with another search loop, or with an
\* assembly that is about to start one, for the same head.
C21_OneMiningActivity ==
    \A c \in Slots :
        pc[c] = "verifyProofOfWork"
            => \A d \in Slots \ {c} :
                   ~(/\ pc[d] \in {"verifyProofOfWork"} \cup WillSearch
                     /\ loc[d].prevHash = loc[c].prevHash)

\* The same for two loops that both pass the three checks of _mine.
C21_TwoLoopsGoOn ==
    ~(/\ working
      /\ ~_mempoolChanged
      /\ \A c \in Slots : pc[c] = "verifyProofOfWork" /\ loc[c].prevHash = headHash)

\* C22: while a candidate is hashed with _mempoolChanged false, no transaction
\* has been added since its body was read from the mempool: the mempool grows
\* by 'transaction-added' only, so every transaction it holds is in the body.
C22_NoMempoolChangeLost ==
    \A c \in Slots :
        (pc[c] = "verifyProofOfWork" /\ ~_mempoolChanged) => mempool \subseteq loc[c].body

\* The accounts state after the block with hash h: the bodies of the chain up
\* to it, applied in order to the genesis state.
RECURSIVE AccountsAt(_)
AccountsAt(h) ==
    IF h <= 1 THEN GenesisAccounts ELSE ApplyBody(AccountsAt(h - 1), chain[h].body)

\* The awaits at which _getNextBlock has returned its block.
Returned == {"getNextBlock", "verifyProofOfWork"}

\* C23: a block returned by _getNextBlock is derived from the one block P its
\* prevHash names: its height is P's plus one, its nBits encode the next
\* target of P, its interlink is P's next interlink and its accountsHash is
\* the hash of P's accounts state with the body applied.
C23_CandidateFromOneHead ==
    \A c \in Slots :
        pc[c] \in Returned =>
            LET P == loc[c].prevHash IN
                /\ loc[c].height = P + 1
                /\ loc[c].nBits = TargetToCompact(NextTarget(P))
                /\ loc[c].interlink = NextInterlink(P, NextTarget(P))
                /\ loc[c].accountsHash = ApplyBody(AccountsAt(P), loc[c].body)

\* Nothing is left that would call _startWork: no pushBlock call waits to be
\* processed and no head change waits for its 'transactions-ready'.
Drained == pushQueue = <<>> /\ pendingSweeps = 0

\* The miner is working and nothing is in progress or about to start.
Stalled == working /\ Drained /\ \A c \in Slots : pc[c] = "none"

\* Fair scheduling with the events drained: as SpecLive, and the blockchain
\* gets to every pushBlock call.
SpecDrained == SpecLive /\ WF_vars(ProcessPush)

LoadCallReturned ==
    IF loadCaller'.calls > loadCaller.calls THEN loadCaller'.returned
    ELSE IF initCall.pc = "waitForSingleWindow" /\ initCall'.pc \notin {"waitForSingleWindow", "done"}
        THEN initCall'.pc
    ELSE "none"

ChecksumCleared(bytes) ==
    SubSeq(bytes, 1, ChecksumOffset) \o BE(0, 4) \o SubSeq(bytes, ChecksumOffset + 5, Len(bytes))

====
